---------------------------- MODULE Spec2Model ----------------------------
(***************************************************************************)
(* Model of pokemon-quiz-backend/main.go: the dataset build at startup,    *)
(* the quiz handler, the answer handler with its progress transaction and  *)
(* the stats handler.                                                      *)
(***************************************************************************)
EXTENDS Integers, Sequences, FiniteSets, TLC

(***************************************************************************)
(* Bounds of the model.                                                    *)
(***************************************************************************)
\* main.go:850 sets MAX_POKEMON_ID = 1025; the model's provider has three
\* species and answers 404 for every other id.
MAX_POKEMON_ID == 3
\* number of recordAnswer transactions one behaviour commits or has in flight
MaxCalls == 3
\* the same, for the behaviours that ask for quizzes
MaxQuizCalls == 2
MaxLegacyMissed == 2
MaxLegacyCalls == 1
\* the capacity of the semaphore of fetchAllPokemonData; main.go:846 makes it
\* 10, which the registry of the model never fills
SemaphoreSlots == 2

(***************************************************************************)
(* Strings.                                                                *)
(***************************************************************************)
\* strings.Contains
Contains(s, sub) ==
  \E i \in 1..(Len(s) - Len(sub) + 1) : SubSeq(s, i, i + Len(sub) - 1) = sub

RECURSIVE SeqToSet(_)
SeqToSet(s) == IF s = <<>> THEN {} ELSE {Head(s)} \cup SeqToSet(Tail(s))

(***************************************************************************)
(* The external provider (PokeAPI): a small fixed world.  Species 1 has    *)
(* two mega forms, species 2 a regional form, species 3 has no kanji name. *)
(***************************************************************************)
ApiPokemon(id, name, species, height, weight, types) ==
  [found |-> TRUE, id |-> id, name |-> name, species |-> species,
   height |-> height, weight |-> weight, types |-> types]
NotFound404 ==
  [found |-> FALSE, id |-> 0, name |-> "", species |-> 0,
   height |-> 0, weight |-> 0, types |-> <<>>]

\* GET /pokemon/{id}; height in decimetres, weight in hectograms
ProviderPokemonByID(id) ==
  CASE id = 1 -> ApiPokemon(1, "charizard", 1, 17, 905, <<"fire", "flying">>)
    [] id = 2 -> ApiPokemon(2, "vulpix", 2, 6, 99, <<"fire">>)
    [] id = 3 -> ApiPokemon(3, "ho-oh", 3, 38, 1990, <<"fire", "flying">>)
    [] OTHER -> NotFound404

\* GET /pokemon/{name}
ProviderPokemonByName(name) ==
  CASE name = "charizard-mega-x" ->
         ApiPokemon(10034, "charizard-mega-x", 1, 17, 1105, <<"fire", "dragon">>)
    [] name = "charizard-mega-y" ->
         ApiPokemon(10035, "charizard-mega-y", 1, 17, 1005, <<"fire", "flying">>)
    [] name = "vulpix-alola" ->
         ApiPokemon(10103, "vulpix-alola", 2, 6, 99, <<"ice">>)
    [] OTHER -> NotFound404

\* GET /type/{id}: the names loadTypeNames stores, English name -> Japanese name
ProviderTypeNames ==
  [fire |-> "honoo", flying |-> "hikou", dragon |-> "doragon", ice |-> "koori"]

\* GET /pokemon-species/{id}
ProviderSpecies(id) ==
  CASE id = 1 ->
         [names |-> << [lang |-> "ja-Hrkt", name |-> "rizaadon"],
                       [lang |-> "en", name |-> "Charizard"],
                       [lang |-> "ja", name |-> "Lizardon"] >>,
          varieties |-> << [is_default |-> TRUE, name |-> "charizard"],
                           [is_default |-> FALSE, name |-> "charizard-mega-x"],
                           [is_default |-> FALSE, name |-> "charizard-mega-y"] >>]
    [] id = 2 ->
         [names |-> << [lang |-> "ja", name |-> "Rokon"],
                       [lang |-> "en", name |-> "Vulpix"] >>,
          varieties |-> << [is_default |-> TRUE, name |-> "vulpix"],
                           [is_default |-> FALSE, name |-> "vulpix-alola"] >>]
    [] id = 3 ->
         [names |-> << [lang |-> "en", name |-> "Ho-Oh"],
                       [lang |-> "ja-Hrkt", name |-> "Houou"] >>,
          varieties |-> << [is_default |-> TRUE, name |-> "ho-oh"] >>]
    [] OTHER -> [names |-> <<>>, varieties |-> <<>>]

\* GET /generation/{genID}: the ids that end the URLs of the member list.
\* Both lists also name id 20034, the id charizard-mega-x is stored under.
ProviderGeneration(genID) ==
  CASE genID = 1 -> {1, 2, 20034}
    [] genID = 2 -> {3, 20034}
    [] OTHER -> {}

\* regionGenerationMap, with two of the nine generation regions
regionGenerationMap ==
  [kanto |-> 1, johto |-> 2, mega |-> -1, gmax |-> -2, regional |-> -3]

(***************************************************************************)
(* buildPokemon                                                            *)
(***************************************************************************)
RECURSIVE FirstNameIn(_, _)
\* the first name of the list in language lang, "" when there is none
FirstNameIn(names, lang) ==
  IF names = <<>> THEN ""
  ELSE IF Head(names).lang = lang THEN Head(names).name
  ELSE FirstNameIn(Tail(names), lang)

japaneseName(apiPokemon, apiSpecies) ==
  LET ja == FirstNameIn(apiSpecies.names, "ja")
      hrkt == FirstNameIn(apiSpecies.names, "ja-Hrkt")
  IN  IF ja # "" THEN ja
      ELSE IF hrkt # "" THEN hrkt
      ELSE apiPokemon.name

\* a float32 quotient n / d, kept as the pair; it is 0 exactly when n is 0
Quotient(n, d) == <<n, d>>
IsZero(q) == q[1] = 0

\* main.go:1150-1156: the Japanese names of the types typeNameMap knows
RECURSIVE japaneseTypes(_, _)
japaneseTypes(types, typeNameMap) ==
  IF types = <<>> THEN <<>>
  ELSE (IF Head(types) \in DOMAIN typeNameMap
        THEN <<typeNameMap[Head(types)]>> ELSE <<>>)
       \o japaneseTypes(Tail(types), typeNameMap)

\* main.go:1108-1168; the stat vector and the artwork are left out
buildPokemon(apiPokemon, apiSpecies, typeNameMap) ==
  [ID |-> apiPokemon.id,
   Name |-> japaneseName(apiPokemon, apiSpecies),
   EnglishName |-> apiPokemon.name,
   Category |-> "",
   Height |-> Quotient(apiPokemon.height, 10),
   Weight |-> Quotient(apiPokemon.weight, 10),
   Types |-> japaneseTypes(apiPokemon.types, typeNameMap)]

(***************************************************************************)
(* State.                                                                  *)
(***************************************************************************)
VARIABLES
  pokemonMapByID,       \* id -> Pokemon (the record registry)
  pokemonListByRegion,  \* category -> sequence of ids (the pointers of the pool)
  users,                \* ids of the rows of the users table
  userStats,            \* user id -> UserStat row (the committed user_stats table)
  tx,                   \* handler goroutine -> its open updateUserStats transaction
  req,                  \* the request answered most recently
  resp,                 \* the response written for it
  hist,                 \* history: user id -> what the committed answers amount to
  mainPC,               \* where main is
  rebuild,              \* the branch loadOrFetchPokemonData took
  cacheFile,            \* pokemon.json
  typeNameMap,          \* English type name -> Japanese type name
  nextID,               \* the loop variable i of fetchAllPokemonData
  semaphore,            \* the number of elements in the semaphore channel
  mu,                   \* the worker that holds the mutex
  wg,                   \* the counter of the WaitGroup
  baseW,                \* id -> position of the worker of that id
  varW,                 \* variant name -> its worker: position and category
  regionsLeft,          \* regions the second pass of fetchCategoryData has to visit
  categoryWrites        \* history: id -> number of assignments to its record's Category

srvVars == <<users, userStats, tx, req, resp, hist>>
bldVars == <<mainPC, rebuild, cacheFile, typeNameMap, nextID, semaphore, mu, wg,
             baseW, varW, regionsLeft, categoryWrites>>

\* the goroutines gin serves requests on
Procs == {"h1", "h2"}
\* user ids that tokens are issued for; NoUser is a request without a valid token
Users == {1, 2}
NoUser == 0

(***************************************************************************)
(* JSON text columns of UserStat.  A text is "" (kind "empty"), the JSON   *)
(* null, a JSON array of ids, or a JSON object category -> detail.         *)
(***************************************************************************)
EmptyText == [kind |-> "empty", elems |-> <<>>]
JSONArray(ids) == [kind |-> "array", elems |-> ids]
JSONObject(m) == [kind |-> "object", elems |-> m]
NoMap == [c \in {} |-> 0]

\* json.Unmarshal of WrongAnswers into []int, guarded as at main.go:667
UnmarshalWrongIDs(text) ==
  IF text.kind = "array" THEN text.elems ELSE <<>>

\* json.Unmarshal of RegionalStats into a map, guarded as at main.go:718;
\* the column default '{}' is the object without keys
UnmarshalRegionalStats(text) ==
  IF text.kind = "object" THEN text.elems ELSE NoMap

ZeroDetail == [Total |-> 0, Correct |-> 0]
\* m[k] of a Go map: the zero value for a missing key
MapGet(m, k) == IF k \in DOMAIN m THEN m[k] ELSE ZeroDetail
\* m[k] = v of a Go map
MapPut(m, k, v) == [x \in DOMAIN m \cup {k} |-> IF x = k THEN v ELSE m[x]]

\* the row FirstOrCreate inserts: UserStat{UserID: userID}
NewUserStat(userID) ==
  [UserID |-> userID, TotalQuestions |-> 0, TotalCorrect |-> 0,
   WrongAnswers |-> EmptyText, RegionalStats |-> JSONObject(NoMap)]

(***************************************************************************)
(* updateUserStats: the body of the transaction.                           *)
(***************************************************************************)
updateRegionalStats_allRegions(stat, region, isCorrect) ==
  LET regionalStats == UnmarshalRegionalStats(stat.RegionalStats)
      bump(d) == [Total |-> d.Total + 1,
                  Correct |-> d.Correct + (IF isCorrect THEN 1 ELSE 0)]
  IN  [stat EXCEPT !.RegionalStats =
         JSONObject([x \in DOMAIN regionalStats \cup {region} |->
                       bump(MapGet(regionalStats, x))])]

\* an update that counts every answer of the category as a correct one
updateRegionalStats_alwaysCorrect(stat, region, isCorrect) ==
  LET regionalStats == UnmarshalRegionalStats(stat.RegionalStats)
      regionStat == MapGet(regionalStats, region)
      updated == [Total |-> regionStat.Total + 1, Correct |-> regionStat.Correct + 1]
  IN  [stat EXCEPT !.RegionalStats =
         JSONObject(MapPut(regionalStats, region, updated))]

updateRegionalStats(stat, region, isCorrect) ==
  LET regionalStats == UnmarshalRegionalStats(stat.RegionalStats)
      regionStat == MapGet(regionalStats, region)
      updated == [Total |-> regionStat.Total + 1,
                  Correct |-> regionStat.Correct + (IF isCorrect THEN 1 ELSE 0)]
  IN  [stat EXCEPT !.RegionalStats =
         JSONObject(MapPut(regionalStats, region, updated))]

removeWrong_dropAll(wrongIDs, pokemonID) == <<>>

\* main.go:685-691: the list without every occurrence of pokemonID
removeWrong(wrongIDs, pokemonID) ==
  SelectSeq(wrongIDs, LAMBDA id : id # pokemonID)

addWrong_noCheck(wrongIDs, pokemonID) == Append(wrongIDs, pokemonID)

addWrong_never(wrongIDs, pokemonID) == wrongIDs

\* main.go:694-703: append pokemonID unless the list holds it
addWrong(wrongIDs, pokemonID) ==
  IF \E i \in 1..Len(wrongIDs) : wrongIDs[i] = pokemonID
  THEN wrongIDs
  ELSE Append(wrongIDs, pokemonID)

hasCategory_known(pokemonID) == pokemonID \in DOMAIN pokemonMapByID

\* main.go:674-675
hasCategory(pokemonID) ==
  /\ pokemonID \in DOMAIN pokemonMapByID
  /\ pokemonMapByID[pokemonID].Category # ""

\* main.go:665-707: the row tx.Save writes, from the row FirstOrCreate read
updatedStat(stat, pokemonID, isCorrect) ==
  LET s1 == [stat EXCEPT !.TotalQuestions = @ + 1]
      wrongIDs == UnmarshalWrongIDs(stat.WrongAnswers)
      s2 == IF hasCategory(pokemonID)
            THEN updateRegionalStats(s1, pokemonMapByID[pokemonID].Category, isCorrect)
            ELSE s1
      s3 == IF isCorrect THEN [s2 EXCEPT !.TotalCorrect = @ + 1] ELSE s2
      newWrong == IF isCorrect THEN removeWrong(wrongIDs, pokemonID)
                  ELSE addWrong(wrongIDs, pokemonID)
  IN  [s3 EXCEPT !.WrongAnswers = JSONArray(newWrong)]

(***************************************************************************)
(* sendQuiz                                                                *)
(***************************************************************************)
\* the draws rand.Int makes for a Fisher-Yates shuffle of n elements:
\* for i = n-1 down to 1, a j in 0..i
Draws(n) == {js \in [1..(n - 1) -> 0..(n - 1)] : \A i \in 1..(n - 1) : js[i] <= i}

\* s[i], s[j] = s[j], s[i] with Go's indices, which start at 0
Swap(s, i, j) == [s EXCEPT ![i + 1] = s[j + 1], ![j + 1] = s[i + 1]]

RECURSIVE ShuffleFrom(_, _, _)
ShuffleFrom(s, js, i) ==
  IF i <= 0 THEN s ELSE ShuffleFrom(Swap(s, i, js[i]), js, i - 1)

\* main.go:381-385 and 391-395
Shuffle(s, js) == ShuffleFrom(s, js, Len(s) - 1)

\* main.go:369-374
filteredOptionsPool(pokemon, optionsPool) ==
  SelectSeq(optionsPool, LAMBDA id : pokemonMapByID[id].ID # pokemon.ID)

Min(a, b) == IF a <= b THEN a ELSE b

\* main.go:386-388: the names of the first three of the shuffled candidates
distractors(shuffled) ==
  [i \in 1..Min(3, Len(shuffled)) |-> pokemonMapByID[shuffled[i]].Name]

\* main.go:376-404: the JSON written for the target, given the shuffled
\* candidates and the draws of the second shuffle
quizJSON(pokemon, shuffled, js2) ==
  [status |-> 200, kind |-> "quiz", id |-> pokemon.ID,
   options |-> Shuffle(<<pokemon.Name>> \o distractors(shuffled), js2)]

\* main.go:367-404, given the draws of the two shuffles
sendQuiz(pokemon, optionsPool, js1, js2) ==
  quizJSON(pokemon, Shuffle(filteredOptionsPool(pokemon, optionsPool), js1), js2)

\* the responses sendQuiz can write for the target and the pool: the values
\* of sendQuiz(pokemon, optionsPool, js1, js2) over the draws js1 and js2
QuizResponses(pokemon, optionsPool) ==
  LET filtered == filteredOptionsPool(pokemon, optionsPool)
      taken == {SubSeq(Shuffle(filtered, js1), 1, Min(3, Len(filtered))) :
                  js1 \in Draws(Len(filtered))}
      draws2 == Draws(1 + Min(3, Len(filtered)))
  IN  {quizJSON(pokemon, t, js2) : t \in taken, js2 \in draws2}

ErrorResponse(code, what) == [status |-> code, kind |-> what]

(***************************************************************************)
(* organizePokemonByRegion                                                 *)
(***************************************************************************)
RECURSIVE OrganizeFrom(_, _, _)
\* main.go:1092-1099, for the order in which range visits the map
OrganizeFrom(m, order, lists) ==
  IF order = <<>> THEN lists
  ELSE LET p == m[Head(order)]
           l1 == IF p.Category # ""
                 THEN [x \in DOMAIN lists \cup {p.Category} |->
                         IF x = p.Category
                         THEN (IF x \in DOMAIN lists THEN lists[x] ELSE <<>>) \o <<p.ID>>
                         ELSE lists[x]]
                 ELSE lists
           l2 == [x \in DOMAIN l1 \cup {"all"} |->
                    IF x = "all"
                    THEN (IF x \in DOMAIN l1 THEN l1[x] ELSE <<>>) \o <<p.ID>>
                    ELSE l1[x]]
       IN  OrganizeFrom(m, Tail(order), l2)

\* an organize that appends to an index it has filled before
organizePokemonByRegion_again(m, order) ==
  OrganizeFrom(m, order, OrganizeFrom(m, order, NoMap))

\* main.go:1088-1100: the index is made anew and filled in one pass
organizePokemonByRegion(m, order) == OrganizeFrom(m, order, NoMap)

\* the orders in which range can visit the keys of a map
RECURSIVE Orders(_)
Orders(S) ==
  IF S = {} THEN {<<>>}
  ELSE UNION {{<<x>> \o o : o \in Orders(S \ {x})} : x \in S}

RECURSIVE SortedSeq(_)
SortedSeq(S) ==
  IF S = {} THEN <<>>
  ELSE LET lo == CHOOSE x \in S : \A y \in S : x <= y
       IN  <<lo>> \o SortedSeq(S \ {lo})

(***************************************************************************)
(* Legacy migration                                                        *)
(***************************************************************************)
RECURSIVE MigrateFrom(_, _, _)
\* main.go:584-598: one pass over the registry, counting the ids of wrongSet
MigrateFrom(ids, wrongSet, regionalStats) ==
  IF ids = {} THEN regionalStats
  ELSE LET id == CHOOSE x \in ids : TRUE
           pokemon == pokemonMapByID[id]
           next == IF pokemon.Category # "" /\ id \in wrongSet
                   THEN MapPut(regionalStats, pokemon.Category,
                               [MapGet(regionalStats, pokemon.Category)
                                  EXCEPT !.Total = @ + 1])
                   ELSE regionalStats
       IN  MigrateFrom(ids \ {id}, wrongSet, next)

\* a migration that takes every record for a missed one
migrateRegionalStatsFromWrongAnswers_allRecords(stat) ==
  MigrateFrom(DOMAIN pokemonMapByID, DOMAIN pokemonMapByID, NoMap)

\* main.go:570-602
migrateRegionalStatsFromWrongAnswers(stat) ==
  MigrateFrom(DOMAIN pokemonMapByID,
              SeqToSet(UnmarshalWrongIDs(stat.WrongAnswers)), NoMap)

(***************************************************************************)
(* Handlers                                                                *)
(***************************************************************************)
\* a request: POST /register, GET /quiz, POST /answer or GET /stats
Request(op, userID, id, name, region, retry) ==
  [op |-> op, userID |-> userID, id |-> id, name |-> name,
   region |-> region, retry |-> retry]
RegisterRequest(userID) == Request("register", userID, 0, "", "", FALSE)
QuizRequest(region, retry, userID) == Request("quiz", userID, 0, "", region, retry)
AnswerRequest(id, name, userID) == Request("answer", userID, id, name, "", FALSE)
StatsRequest(userID) == Request("stats", userID, 0, "", "", FALSE)

NoTx == [open |-> FALSE, request |-> AnswerRequest(0, "", NoUser),
         userID |-> NoUser, pokemonID |-> 0, isCorrect |-> FALSE,
         stat |-> NewUserStat(NoUser), created |-> FALSE]

\* history of a user without a committed answer: the number of committed
\* answers, of committed correct answers, the last verdict for each id, and
\* the id of the last committed answer and whether the stored missed set held
\* it when the answer was committed
NoHist == [n |-> 0, nCorrect |-> 0, last |-> NoMap, lastID |-> 0,
           wasMissed |-> FALSE]

RECURSIVE SumN(_)
SumN(S) == IF S = {} THEN 0
           ELSE LET u == CHOOSE x \in S : TRUE IN hist[u].n + SumN(S \ {u})

\* the number of transactions committed or open
Calls == SumN(Users) + Cardinality({p \in Procs : tx[p].open})

\* an open transaction has inserted the row of userID and not committed it
PendingInsert(userID) ==
  \E p \in Procs : tx[p].open /\ tx[p].userID = userID /\ tx[p].created

\* a save that is not restricted to the row of the user
SetStat_everyRow(userID, stat) ==
  [u \in DOMAIN userStats \cup {userID} |-> stat]

\* tx.Save(&stat) and the insert of FirstOrCreate: the row of userID is stat
SetStat(userID, stat) ==
  [u \in DOMAIN userStats \cup {userID} |-> IF u = userID THEN stat ELSE userStats[u]]

\* main.go:453-486.  db.Create of the UserStat row may fail; its error is ignored.
handleRegister(userID, statCreated) ==
  /\ userID \notin users
  /\ users' = users \cup {userID}
  /\ userStats' = IF statCreated /\ userID \notin DOMAIN userStats
                  THEN SetStat(userID, [NewUserStat(userID) EXCEPT
                                          !.WrongAnswers = JSONArray(<<>>)])
                  ELSE userStats
  /\ req' = RegisterRequest(userID)
  /\ resp' = [status |-> 201, kind |-> "registered"]
  /\ UNCHANGED <<bldVars, pokemonMapByID, pokemonListByRegion, tx, hist>>

nothingToReview_badRequest == ErrorResponse(400, "nothing to review")

\* main.go:321
nothingToReview == ErrorResponse(404, "nothing to review")

invalidRegion_notFound == ErrorResponse(404, "invalid or empty region")

\* main.go:355
invalidRegion == ErrorResponse(400, "invalid or empty region")

\* main.go:320
reviewEmpty(wrongIDs) == Len(wrongIDs) = 0

\* main.go:340 and 354: the region has a pool and the pool is not empty
poolUsable(region) ==
  region \in DOMAIN pokemonListByRegion /\ Len(pokemonListByRegion[region]) # 0

\* a fallback that offers no record
fallbackPool_empty == <<>>

\* main.go:343-346: every record of the registry, collected in the order range
\* visits it; sendQuiz shuffles what it takes from the pool
fallbackPool == SortedSeq(DOMAIN pokemonMapByID)

\* main.go:310-349: review mode for an identified user.  FirstOrCreate runs
\* outside any transaction; while another transaction holds the uncommitted
\* insert of the row, this SELECT finds no row and the INSERT does not succeed.
getQuizRetry(userID) ==
  LET stat == IF userID \in DOMAIN userStats THEN userStats[userID]
              ELSE NewUserStat(userID)
      wrongIDs == UnmarshalWrongIDs(stat.WrongAnswers)
  IN  /\ userStats' = IF userID \in DOMAIN userStats \/ PendingInsert(userID)
                      THEN userStats
                      ELSE SetStat(userID, stat)
      /\ IF reviewEmpty(wrongIDs)
         THEN resp' = nothingToReview
         ELSE \E r \in 1..Len(wrongIDs) :
                LET targetID == wrongIDs[r] IN
                IF targetID \notin DOMAIN pokemonMapByID
                THEN resp' = ErrorResponse(500, "no data")
                ELSE LET pokemon == pokemonMapByID[targetID]
                         optionsPool ==
                           IF poolUsable(pokemon.Category)
                           THEN pokemonListByRegion[pokemon.Category]
                           ELSE fallbackPool
                     IN  resp' \in QuizResponses(pokemon, optionsPool)

\* main.go:352-364: normal mode
getQuizNormal(region) ==
  /\ UNCHANGED userStats
  /\ IF ~poolUsable(region)
     THEN resp' = invalidRegion
     ELSE LET targetPokemonList == pokemonListByRegion[region] IN
          \E r \in 1..Len(targetPokemonList) :
            resp' \in QuizResponses(pokemonMapByID[targetPokemonList[r]],
                                    targetPokemonList)

\* main.go:281-365
handleGetQuiz(region, retry, userID) ==
  /\ userID \in users \cup {NoUser}
  /\ req' = QuizRequest(region, retry, userID)
  /\ IF retry
     THEN IF userID = NoUser
          THEN resp' = ErrorResponse(401, "unauthorized") /\ UNCHANGED userStats
          ELSE getQuizRetry(userID)
     ELSE getQuizNormal(region)
  /\ UNCHANGED <<bldVars, pokemonMapByID, pokemonListByRegion, users, tx, hist>>

AnswerResponse(isCorrect, pokemon) ==
  [status |-> 200, kind |-> "answer", isCorrect |-> isCorrect,
   correctPokemon |-> pokemon]

pokemonNotFound_badRequest == ErrorResponse(400, "pokemon not found")

\* main.go:419
pokemonNotFound == ErrorResponse(404, "pokemon not found")

answerIsCorrect_contains(requestName, correctPokemon) ==
  Contains(correctPokemon.Name, requestName)

\* main.go:423
answerIsCorrect(requestName, correctPokemon) == requestName = correctPokemon.Name

\* main.go:407-449 up to the FirstOrCreate of updateUserStats (main.go:661).
\* A request without a user is answered at once; for a user the transaction
\* is opened and the row read, or inserted when there is none.
handleAnswer(p, id, name, userID) ==
  /\ ~tx[p].open
  /\ userID \in users \cup {NoUser}
  /\ IF id \notin DOMAIN pokemonMapByID
     THEN /\ req' = AnswerRequest(id, name, userID)
          /\ resp' = pokemonNotFound
          /\ UNCHANGED tx
     ELSE LET correctPokemon == pokemonMapByID[id]
              isCorrect == answerIsCorrect(name, correctPokemon)
          IN  IF userID = NoUser
              THEN /\ req' = AnswerRequest(id, name, userID)
                   /\ resp' = AnswerResponse(isCorrect, correctPokemon)
                   /\ UNCHANGED tx
              ELSE /\ Calls < MaxCalls
                   /\ tx' = [tx EXCEPT ![p] =
                        [open |-> TRUE, request |-> AnswerRequest(id, name, userID),
                         userID |-> userID,
                         pokemonID |-> correctPokemon.ID, isCorrect |-> isCorrect,
                         stat |-> IF userID \in DOMAIN userStats
                                  THEN userStats[userID]
                                  ELSE NewUserStat(userID),
                         created |-> userID \notin DOMAIN userStats]]
                   /\ UNCHANGED <<req, resp>>
  /\ UNCHANGED <<bldVars, pokemonMapByID, pokemonListByRegion, users, userStats, hist>>

\* main.go:665-709 and 445-448: the row is updated from the row read, saved
\* and committed, and the answer is written.  A transaction that inserted the
\* row commits only while no other row of the user (UserID is unique) exists.
txCommit(p) ==
  /\ tx[p].open
  /\ tx[p].created => tx[p].userID \notin DOMAIN userStats
  /\ userStats' = SetStat(tx[p].userID,
                          updatedStat(tx[p].stat, tx[p].pokemonID, tx[p].isCorrect))
  /\ hist' = [hist EXCEPT ![tx[p].userID] =
                [n |-> @.n + 1,
                 nCorrect |-> @.nCorrect + (IF tx[p].isCorrect THEN 1 ELSE 0),
                 last |-> [id \in DOMAIN @.last \cup {tx[p].pokemonID} |->
                             IF id = tx[p].pokemonID THEN tx[p].isCorrect
                             ELSE @.last[id]],
                 lastID |-> tx[p].pokemonID,
                 wasMissed |->
                   /\ tx[p].userID \in DOMAIN userStats
                   /\ tx[p].pokemonID \in
                        SeqToSet(UnmarshalWrongIDs(userStats[tx[p].userID].WrongAnswers))]]
  /\ req' = tx[p].request
  /\ resp' = AnswerResponse(tx[p].isCorrect, pokemonMapByID[tx[p].pokemonID])
  /\ tx' = [tx EXCEPT ![p] = NoTx]
  /\ UNCHANGED <<bldVars, pokemonMapByID, pokemonListByRegion, users>>

\* a failure that leaves the row FirstOrCreate inserted, and the count of the
\* answer, in the table
txRollback_partial(p) ==
  /\ tx[p].open
  /\ userStats' = SetStat(tx[p].userID,
                          [tx[p].stat EXCEPT !.TotalQuestions = @ + 1])
  /\ req' = tx[p].request
  /\ resp' = AnswerResponse(tx[p].isCorrect, pokemonMapByID[tx[p].pokemonID])
  /\ tx' = [tx EXCEPT ![p] = NoTx]
  /\ UNCHANGED <<bldVars, pokemonMapByID, pokemonListByRegion, users, hist>>

\* main.go:661-663, 709-713 and 445-448: FirstOrCreate or Save returns an
\* error, the transaction is rolled back, and the answer is written all the same
txRollback(p) ==
  /\ tx[p].open
  /\ req' = tx[p].request
  /\ resp' = AnswerResponse(tx[p].isCorrect, pokemonMapByID[tx[p].pokemonID])
  /\ tx' = [tx EXCEPT ![p] = NoTx]
  /\ UNCHANGED <<bldVars, pokemonMapByID, pokemonListByRegion, users, userStats, hist>>

\* a stats handler that reads the row with FirstOrCreate
handleGetStats_firstOrCreate(userID) ==
  /\ userID \in users
  /\ req' = StatsRequest(userID)
  /\ LET userStat == IF userID \in DOMAIN userStats THEN userStats[userID]
                     ELSE NewUserStat(userID)
         parsed == UnmarshalRegionalStats(userStat.RegionalStats)
         regionalStats ==
           IF DOMAIN parsed = {} /\ userStat.TotalQuestions > 0
           THEN migrateRegionalStatsFromWrongAnswers(userStat)
           ELSE parsed
     IN  /\ userStats' = SetStat(userID, userStat)
         /\ resp' = [status |-> 200, kind |-> "stats",
                     TotalQuestions |-> userStat.TotalQuestions,
                     TotalCorrect |-> userStat.TotalCorrect,
                     WrongAnswers |-> userStat.WrongAnswers,
                     RegionalStats |-> regionalStats]
  /\ UNCHANGED <<bldVars, pokemonMapByID, pokemonListByRegion, users, tx, hist>>

\* a stats handler that saves the migrated map in the row
handleGetStats_writeBack(userID) ==
  /\ userID \in users
  /\ req' = StatsRequest(userID)
  /\ IF userID \notin DOMAIN userStats
     THEN /\ resp' = [status |-> 200, kind |-> "stats", TotalQuestions |-> 0,
                      TotalCorrect |-> 0, WrongAnswers |-> JSONArray(<<>>),
                      RegionalStats |-> NoMap]
          /\ UNCHANGED userStats
     ELSE LET userStat == userStats[userID]
              parsed == UnmarshalRegionalStats(userStat.RegionalStats)
              regionalStats ==
                IF DOMAIN parsed = {} /\ userStat.TotalQuestions > 0
                THEN migrateRegionalStatsFromWrongAnswers(userStat)
                ELSE parsed
          IN  /\ resp' = [status |-> 200, kind |-> "stats",
                          TotalQuestions |-> userStat.TotalQuestions,
                          TotalCorrect |-> userStat.TotalCorrect,
                          WrongAnswers |-> userStat.WrongAnswers,
                          RegionalStats |-> regionalStats]
              /\ userStats' = SetStat(userID, [userStat EXCEPT
                                 !.RegionalStats = JSONObject(regionalStats)])
  /\ UNCHANGED <<bldVars, pokemonMapByID, pokemonListByRegion, users, tx, hist>>

\* main.go:548-558: the per-category map of a stats response, the stored map
\* or the migrated one
reportedRegionalStats(userStat) ==
  LET parsed == UnmarshalRegionalStats(userStat.RegionalStats)
  IN  IF DOMAIN parsed = {} /\ userStat.TotalQuestions > 0
      THEN migrateRegionalStatsFromWrongAnswers(userStat)
      ELSE parsed

\* main.go:535-567 behind authMiddleware (main.go:641-646)
handleGetStats(userID) ==
  /\ userID \in users
  /\ req' = StatsRequest(userID)
  /\ IF userID \notin DOMAIN userStats
     THEN resp' = [status |-> 200, kind |-> "stats", TotalQuestions |-> 0,
                   TotalCorrect |-> 0, WrongAnswers |-> JSONArray(<<>>),
                   RegionalStats |-> NoMap]
     ELSE LET userStat == userStats[userID]
              regionalStats == reportedRegionalStats(userStat)
          IN  resp' = [status |-> 200, kind |-> "stats",
                       TotalQuestions |-> userStat.TotalQuestions,
                       TotalCorrect |-> userStat.TotalCorrect,
                       WrongAnswers |-> userStat.WrongAnswers,
                       RegionalStats |-> regionalStats]
  /\ UNCHANGED <<bldVars, pokemonMapByID, pokemonListByRegion, users, userStats, tx, hist>>

(***************************************************************************)
(* The serving process: the handlers over a dataset the build has left.    *)
(***************************************************************************)
\* the registry after a build in which the fetch of vulpix-alola and the
\* fetch of generation 2 failed
ServingData ==
  LET base(id, cat) ==
        [buildPokemon(ProviderPokemonByID(id), ProviderSpecies(id),
                      ProviderTypeNames)
           EXCEPT !.Category = cat]
      variety(name, cat) ==
        LET api == ProviderPokemonByName(name)
        IN  [buildPokemon(api, ProviderSpecies(api.species), ProviderTypeNames)
               EXCEPT !.Category = cat, !.ID = @ + 10000]
      recs == {base(1, "kanto"), base(2, "kanto"), base(3, ""),
               variety("charizard-mega-x", "mega"),
               variety("charizard-mega-y", "mega")}
  IN  [id \in {r.ID : r \in recs} |-> CHOOSE r \in recs : r.ID = id]

\* an id the registry does not hold
UnknownID == CHOOSE id \in 1..(MAX_POKEMON_ID + 1) : id \notin DOMAIN ServingData
AnswerIDs == DOMAIN ServingData \cup {UnknownID}
\* submitted names: the display name of records 1, 20034 and 20035, and the
\* display name of record 3
AnswerNames == {"Lizardon", "Houou"}
QuizRegions == {"kanto", "johto", "mega", "all"}

(***************************************************************************)
(* Start-up: main, loadOrFetchPokemonData, fetchAllPokemonData and its     *)
(* workers, fetchCategoryData.                                             *)
(***************************************************************************)
\* The worker of a variety is one goroutine started at main.go:919-926; it is
\* known by the name it was started with and the place of that name in the
\* variety list, so that two entries with one name are two workers.
NoVariety == <<"", 0>>
MuFree == [kind |-> "free", id |-> 0, variety |-> NoVariety]
BaseWorker(id) == [kind |-> "base", id |-> id, variety |-> NoVariety]
VarietyWorker(w) == [kind |-> "variety", id |-> 0, variety |-> w]
\* the name the worker was started with
nameOf(w) == w[1]

\* main.go:918-926: the category a base worker hands to the worker of a variety
varietyCategory(vName) ==
  IF Contains(vName, "-mega") \/ Contains(vName, "-mega-x") \/ Contains(vName, "-mega-y")
  THEN "mega"
  ELSE IF Contains(vName, "-gmax") THEN "gmax"
  ELSE IF \/ Contains(vName, "-alola") \/ Contains(vName, "-galar")
          \/ Contains(vName, "-hisui") \/ Contains(vName, "-paldea")
  THEN "regional"
  ELSE ""

\* a first pass that knows one special category only
specialCategory_regionalOnly(englishName) ==
  IF \/ Contains(englishName, "-mega") \/ Contains(englishName, "-gmax")
     \/ Contains(englishName, "-alola") \/ Contains(englishName, "-galar")
     \/ Contains(englishName, "-hisui") \/ Contains(englishName, "-paldea")
  THEN "regional"
  ELSE ""

\* main.go:1044-1050: the category the first pass derives from an English name
specialCategory(englishName) ==
  IF Contains(englishName, "-mega") THEN "mega"
  ELSE IF Contains(englishName, "-gmax") THEN "gmax"
  ELSE IF \/ Contains(englishName, "-alola") \/ Contains(englishName, "-galar")
          \/ Contains(englishName, "-hisui") \/ Contains(englishName, "-paldea")
  THEN "regional"
  ELSE ""

\* json.MarshalIndent of the registry: the members of a JSON object
MarshalDataset(m) == {<<id, m[id]>> : id \in DOMAIN m}
\* json.Unmarshal of such an object into a map: the members are stored, the
\* other keys of the map stay
UnmarshalDataset(data, into) ==
  [id \in DOMAIN into \cup {e[1] : e \in data} |->
     IF \E e \in data : e[1] = id
     THEN (CHOOSE e \in data : e[1] = id)[2]
     ELSE into[id]]

\* a completeness check that looks at the types only
incomplete_typesOnly(p) == Len(p.Types) = 0

\* main.go:788
incomplete(p) == Len(p.Types) = 0 \/ IsZero(p.Height) \/ IsZero(p.Weight)

NoFile == [exists |-> FALSE, data |-> {}]
File(data) == [exists |-> TRUE, data |-> data]

\* a file that a version of the program without types and sizes has written:
\* the absent members decode to zero values
LegacyCache ==
  File({<<id, [ServingData[id] EXCEPT !.Types = <<>>, !.Height = Quotient(0, 1),
                                      !.Weight = Quotient(0, 1)]>> :
          id \in DOMAIN ServingData})
\* a file in which only the weight of record 1 is missing
ZeroWeightCache ==
  File(MarshalDataset([ServingData EXCEPT ![1].Weight = Quotient(0, 1)]))
CompleteCache == File(MarshalDataset(ServingData))
\* a file that holds the JSON object without members
EmptyCache == File(MarshalDataset(NoMap))
InitialCaches == {NoFile, LegacyCache, ZeroWeightCache, CompleteCache, EmptyCache}

\* main.go:188-207
main(jwtKeySet, dbOpens) ==
  /\ mainPC = "main"
  /\ mainPC' = IF jwtKeySet /\ dbOpens THEN "loadOrFetch" ELSE "fatal"
  /\ UNCHANGED <<rebuild, cacheFile, typeNameMap, nextID, semaphore, mu, wg,
                 baseW, varW, regionsLeft, pokemonMapByID, pokemonListByRegion,
                 srvVars, categoryWrites>>

\* main.go:774-807: the file is looked at, read and judged
loadOrFetchPokemonData(readable) ==
  /\ mainPC = "loadOrFetch"
  /\ IF ~cacheFile.exists
     THEN /\ readable
          /\ rebuild' = "absent"
          /\ mainPC' = "loadTypeNames"
          /\ UNCHANGED pokemonMapByID
     ELSE IF ~readable
     THEN /\ mainPC' = "fatal"
          /\ UNCHANGED <<rebuild, pokemonMapByID>>
     ELSE LET loaded == UnmarshalDataset(cacheFile.data, pokemonMapByID)
          IN  IF 1 \in DOMAIN loaded /\ incomplete(loaded[1])
              THEN /\ pokemonMapByID' = NoMap
                   /\ rebuild' = "incomplete"
                   /\ mainPC' = "loadTypeNames"
              ELSE /\ pokemonMapByID' = loaded
                   /\ rebuild' = "none"
                   /\ mainPC' = "organize"
  /\ UNCHANGED <<cacheFile, typeNameMap, nextID, semaphore, mu, wg, baseW, varW,
                 regionsLeft, pokemonListByRegion, srvVars, categoryWrites>>

\* main.go:1001-1036, called at main.go:840 and at main.go:215
loadTypeNames(ok) ==
  /\ mainPC \in {"loadTypeNames", "mainLoadTypeNames"}
  /\ LET next == IF mainPC = "loadTypeNames" THEN "fetchAll" ELSE "serving"
     IN  IF typeNameMap # NoMap
         THEN ok /\ mainPC' = next /\ UNCHANGED typeNameMap
         ELSE IF ok
         THEN mainPC' = next /\ typeNameMap' = ProviderTypeNames
         ELSE mainPC' = "fatal" /\ UNCHANGED typeNameMap
  /\ UNCHANGED <<rebuild, cacheFile, nextID, semaphore, mu, wg, baseW, varW,
                 regionsLeft, pokemonMapByID, pokemonListByRegion, srvVars, categoryWrites>>

canAcquire_always == TRUE

\* main.go:846, 854 and 941: a send on the semaphore channel goes through
\* while the channel holds fewer elements than its capacity
canAcquire == semaphore < SemaphoreSlots

\* main.go:853-856: one turn of the loop that starts the workers
dispatch ==
  /\ mainPC = "fetchAll"
  /\ nextID <= MAX_POKEMON_ID
  /\ canAcquire
  /\ semaphore' = semaphore + 1
  /\ wg' = wg + 1
  /\ baseW' = [baseW EXCEPT ![nextID] = "fetch"]
  /\ nextID' = nextID + 1
  /\ UNCHANGED <<mainPC, rebuild, cacheFile, typeNameMap, mu, varW, regionsLeft,
                 pokemonMapByID, pokemonListByRegion, srvVars, categoryWrites>>

waitReturns_atOnce == TRUE

\* main.go:933: wg.Wait returns when the counter is zero
waitReturns == wg = 0

\* main.go:933, and the return into loadOrFetchPokemonData
wgWait ==
  /\ mainPC = "fetchAll"
  /\ nextID > MAX_POKEMON_ID
  /\ waitReturns
  /\ mainPC' = IF rebuild = "absent" THEN "fetchCategoryData" ELSE "save"
  /\ UNCHANGED <<rebuild, cacheFile, typeNameMap, nextID, semaphore, mu, wg,
                 baseW, varW, regionsLeft, pokemonMapByID, pokemonListByRegion,
                 srvVars, categoryWrites>>

\* main.go:861-904: the two fetches of a base worker
baseFetch(id, ok) ==
  /\ baseW[id] = "fetch"
  /\ ok => ProviderPokemonByID(id).found
  /\ baseW' = [baseW EXCEPT ![id] = IF ok THEN "lock" ELSE "skip"]
  /\ UNCHANGED <<mainPC, rebuild, cacheFile, typeNameMap, nextID, semaphore, mu,
                 wg, varW, regionsLeft, pokemonMapByID, pokemonListByRegion,
                 srvVars, categoryWrites>>

canLock_always == TRUE

\* main.go:910, 947 and 993: mu.Lock goes through while nobody holds the mutex
canLock == mu = MuFree

\* main.go:910
baseLock(id) ==
  /\ baseW[id] = "lock"
  /\ canLock
  /\ mu' = BaseWorker(id)
  /\ baseW' = [baseW EXCEPT ![id] = "write"]
  /\ UNCHANGED <<mainPC, rebuild, cacheFile, typeNameMap, nextID, semaphore, wg,
                 varW, regionsLeft, pokemonMapByID, pokemonListByRegion, srvVars, categoryWrites>>

\* main.go:914-929: the varieties a base worker starts a worker for
spawned(apiSpecies) ==
  {<<apiSpecies.varieties[i].name, i>> : i \in
     {j \in DOMAIN apiSpecies.varieties :
        /\ ~apiSpecies.varieties[j].is_default
        /\ varietyCategory(apiSpecies.varieties[j].name) # ""}}

\* main.go:907-930
baseWrite(id, apiSpecies) ==
  /\ baseW[id] = "write"
  /\ LET pokemon == buildPokemon(ProviderPokemonByID(id), apiSpecies, typeNameMap)
     IN  /\ pokemonMapByID' = MapPut(pokemonMapByID, pokemon.ID, pokemon)
         /\ wg' = wg + Cardinality(spawned(apiSpecies))
         /\ varW' = [n \in DOMAIN varW \cup spawned(apiSpecies) |->
                       IF n \in spawned(apiSpecies)
                       THEN [pc |-> "sem", category |-> varietyCategory(nameOf(n))]
                       ELSE varW[n]]
  /\ mu' = MuFree
  /\ baseW' = [baseW EXCEPT ![id] = "exit"]
  /\ UNCHANGED <<mainPC, rebuild, cacheFile, typeNameMap, nextID, semaphore,
                 regionsLeft, pokemonListByRegion, srvVars, categoryWrites>>

\* a receive that leaves the element in the channel
release_keepsSlot(slots) == slots

\* main.go:858 and 942: the deferred receive from the semaphore channel
release(slots) == slots - 1

\* main.go:857-858: the deferred calls of a base worker, after its write or
\* after the return that skips the id
baseExit(id) ==
  /\ baseW[id] \in {"exit", "skip"}
  /\ semaphore' = release(semaphore)
  /\ wg' = wg - 1
  /\ baseW' = [baseW EXCEPT ![id] = IF @ = "exit" THEN "done" ELSE "skipped"]
  /\ UNCHANGED <<mainPC, rebuild, cacheFile, typeNameMap, nextID, mu, varW,
                 regionsLeft, pokemonMapByID, pokemonListByRegion, srvVars, categoryWrites>>

\* main.go:941
varietyAcquire(w) ==
  /\ w \in DOMAIN varW
  /\ varW[w].pc = "sem"
  /\ canAcquire
  /\ semaphore' = semaphore + 1
  /\ varW' = [varW EXCEPT ![w].pc = "lock1"]
  /\ UNCHANGED <<mainPC, rebuild, cacheFile, typeNameMap, nextID, mu, wg, baseW,
                 regionsLeft, pokemonMapByID, pokemonListByRegion, srvVars, categoryWrites>>

\* main.go:947 and main.go:993
varietyLock(w) ==
  /\ w \in DOMAIN varW
  /\ varW[w].pc \in {"lock1", "lock2"}
  /\ canLock
  /\ mu' = VarietyWorker(w)
  /\ varW' = [varW EXCEPT ![w].pc = IF @ = "lock1" THEN "check" ELSE "add"]
  /\ UNCHANGED <<mainPC, rebuild, cacheFile, typeNameMap, nextID, semaphore, wg,
                 baseW, regionsLeft, pokemonMapByID, pokemonListByRegion, srvVars, categoryWrites>>

\* main.go:948-954
varietyCheck(w) ==
  /\ w \in DOMAIN varW
  /\ varW[w].pc = "check"
  /\ mu' = MuFree
  /\ varW' = [varW EXCEPT ![w].pc =
                IF \E id \in DOMAIN pokemonMapByID :
                     pokemonMapByID[id].EnglishName = nameOf(w)
                THEN "skip" ELSE "fetch"]
  /\ UNCHANGED <<mainPC, rebuild, cacheFile, typeNameMap, nextID, semaphore, wg,
                 baseW, regionsLeft, pokemonMapByID, pokemonListByRegion, srvVars, categoryWrites>>

\* main.go:957-986: the two fetches of the worker of a variety
varietyFetch(w, ok) ==
  /\ w \in DOMAIN varW
  /\ varW[w].pc = "fetch"
  /\ ok => ProviderPokemonByName(nameOf(w)).found
  /\ varW' = [varW EXCEPT ![w].pc = IF ok THEN "lock2" ELSE "skip"]
  /\ UNCHANGED <<mainPC, rebuild, cacheFile, typeNameMap, nextID, semaphore, mu,
                 wg, baseW, regionsLeft, pokemonMapByID, pokemonListByRegion,
                 srvVars, categoryWrites>>

\* the number of assignments made so far to the Category of the record of id
WritesOf(id) == IF id \in DOMAIN categoryWrites THEN categoryWrites[id] ELSE 0
\* the history after one more assignment to the Category of each record of ids
Written(ids) ==
  [id \in DOMAIN categoryWrites \cup ids |->
     WritesOf(id) + (IF id \in ids THEN 1 ELSE 0)]

varietyID_species(apiPokemon) == apiPokemon.species

\* main.go:995: the id a variety is stored under
varietyID(apiPokemon) == apiPokemon.id + 10000

\* main.go:989-997
varietyAdd(w) ==
  /\ w \in DOMAIN varW
  /\ varW[w].pc = "add"
  /\ LET apiPokemon == ProviderPokemonByName(nameOf(w))
         pokemon == [buildPokemon(apiPokemon, ProviderSpecies(apiPokemon.species),
                                  typeNameMap)
                       EXCEPT !.Category = varW[w].category,
                              !.ID = varietyID(apiPokemon)]
     IN  /\ pokemonMapByID' = MapPut(pokemonMapByID, pokemon.ID, pokemon)
         /\ categoryWrites' = MapPut(categoryWrites, pokemon.ID, 1)
  /\ mu' = MuFree
  /\ varW' = [varW EXCEPT ![w].pc = "exit"]
  /\ UNCHANGED <<mainPC, rebuild, cacheFile, typeNameMap, nextID, semaphore, wg,
                 baseW, regionsLeft, pokemonListByRegion, srvVars>>

\* main.go:940-942: the deferred calls of the worker of a variety, after its
\* write or after the return that skips the variety
varietyExit(w) ==
  /\ w \in DOMAIN varW
  /\ varW[w].pc \in {"exit", "skip"}
  /\ semaphore' = release(semaphore)
  /\ wg' = wg - 1
  /\ varW' = [varW EXCEPT ![w].pc = IF @ = "exit" THEN "done" ELSE "skipped"]
  /\ UNCHANGED <<mainPC, rebuild, cacheFile, typeNameMap, nextID, mu, baseW,
                 regionsLeft, pokemonMapByID, pokemonListByRegion, srvVars, categoryWrites>>

\* main.go:1043-1051: the first pass of fetchCategoryData
fetchCategoryData ==
  /\ mainPC = "fetchCategoryData"
  /\ pokemonMapByID' =
       [id \in DOMAIN pokemonMapByID |->
          IF specialCategory(pokemonMapByID[id].EnglishName) # ""
          THEN [pokemonMapByID[id] EXCEPT
                  !.Category = specialCategory(pokemonMapByID[id].EnglishName)]
          ELSE pokemonMapByID[id]]
  /\ categoryWrites' =
       Written({id \in DOMAIN pokemonMapByID :
                  specialCategory(pokemonMapByID[id].EnglishName) # ""})
  /\ regionsLeft' = DOMAIN regionGenerationMap
  /\ mainPC' = "generations"
  /\ UNCHANGED <<rebuild, cacheFile, typeNameMap, nextID, semaphore, mu, wg,
                 baseW, varW, pokemonListByRegion, srvVars>>

stillUnclassified_always(p) == TRUE

\* main.go:1079
stillUnclassified(p) == p.Category = ""

\* main.go:1054-1084: one turn of the second pass, for the region that range
\* yields next
fetchGeneration(region, ok) ==
  /\ mainPC = "generations"
  /\ region \in regionsLeft
  /\ LET genID == regionGenerationMap[region]
         members == {id \in DOMAIN pokemonMapByID :
                       /\ id \in ProviderGeneration(genID)
                       /\ stillUnclassified(pokemonMapByID[id])}
     IN  IF genID <= 0
         THEN ok /\ UNCHANGED <<pokemonMapByID, categoryWrites>>
         ELSE IF ~ok
         THEN UNCHANGED <<pokemonMapByID, categoryWrites>>
         ELSE /\ pokemonMapByID' =
                   [id \in DOMAIN pokemonMapByID |->
                      IF id \in members
                      THEN [pokemonMapByID[id] EXCEPT !.Category = region]
                      ELSE pokemonMapByID[id]]
              /\ categoryWrites' = Written(members)
  /\ regionsLeft' = regionsLeft \ {region}
  /\ mainPC' = IF regionsLeft' = {} THEN "save" ELSE "generations"
  /\ UNCHANGED <<rebuild, cacheFile, typeNameMap, nextID, semaphore, mu, wg,
                 baseW, varW, pokemonListByRegion, srvVars>>

\* main.go:796-800 and main.go:814-820
save(written) ==
  /\ mainPC = "save"
  /\ cacheFile' = IF written THEN File(MarshalDataset(pokemonMapByID)) ELSE cacheFile
  /\ mainPC' = IF ~written /\ rebuild = "absent" THEN "fatal" ELSE "organize"
  /\ UNCHANGED <<rebuild, typeNameMap, nextID, semaphore, mu, wg, baseW, varW,
                 regionsLeft, pokemonMapByID, pokemonListByRegion, srvVars, categoryWrites>>

\* main.go:829
organize(order) ==
  /\ mainPC = "organize"
  /\ pokemonListByRegion' = organizePokemonByRegion(pokemonMapByID, order)
  /\ mainPC' = "mainLoadTypeNames"
  /\ UNCHANGED <<rebuild, cacheFile, typeNameMap, nextID, semaphore, mu, wg,
                 baseW, varW, regionsLeft, pokemonMapByID, srvVars, categoryWrites>>

InitRequests ==
  /\ users = {}
  /\ userStats = NoMap
  /\ tx = [p \in Procs |-> NoTx]
  /\ req = Request("none", NoUser, 0, "", "", FALSE)
  /\ resp = [status |-> 0, kind |-> "none"]
  /\ hist = [u \in Users |-> NoHist]

\* the process as main finds it
InitBuild ==
  /\ mainPC = "main"
  /\ rebuild = "none"
  /\ cacheFile \in InitialCaches
  /\ typeNameMap = NoMap
  /\ nextID = 1
  /\ semaphore = 0
  /\ mu = MuFree
  /\ wg = 0
  /\ baseW = [id \in 1..MAX_POKEMON_ID |-> "idle"]
  /\ varW = NoMap
  /\ regionsLeft = {}
  /\ categoryWrites = NoMap
  /\ pokemonMapByID = NoMap
  /\ pokemonListByRegion = NoMap
  /\ InitRequests

NextBuild ==
  \/ \E jwtKeySet, dbOpens \in BOOLEAN : main(jwtKeySet, dbOpens)
  \/ \E readable \in BOOLEAN : loadOrFetchPokemonData(readable)
  \/ \E ok \in BOOLEAN : loadTypeNames(ok)
  \/ dispatch
  \/ wgWait
  \/ \E id \in 1..MAX_POKEMON_ID, ok \in BOOLEAN : baseFetch(id, ok)
  \/ \E id \in 1..MAX_POKEMON_ID : baseLock(id)
  \/ \E id \in 1..MAX_POKEMON_ID : baseWrite(id, ProviderSpecies(id))
  \/ \E id \in 1..MAX_POKEMON_ID : baseExit(id)
  \/ \E w \in DOMAIN varW : varietyAcquire(w)
  \/ \E w \in DOMAIN varW : varietyLock(w)
  \/ \E w \in DOMAIN varW : varietyCheck(w)
  \/ \E w \in DOMAIN varW, ok \in BOOLEAN : varietyFetch(w, ok)
  \/ \E w \in DOMAIN varW : varietyAdd(w)
  \/ \E w \in DOMAIN varW : varietyExit(w)
  \/ fetchCategoryData
  \/ \E region \in DOMAIN regionGenerationMap, ok \in BOOLEAN :
       fetchGeneration(region, ok)
  \/ \E written \in BOOLEAN : save(written)
  \/ \E order \in Orders(DOMAIN pokemonMapByID) : organize(order)

(***************************************************************************)
(* Serving, over the dataset a start-up has left.                          *)
(***************************************************************************)
DatasetServed ==
  /\ mainPC = "serving"
  /\ rebuild = "absent"
  /\ cacheFile = CompleteCache
  /\ typeNameMap = ProviderTypeNames
  /\ nextID = MAX_POKEMON_ID + 1
  /\ semaphore = 0
  /\ mu = MuFree
  /\ wg = 0
  /\ baseW = [id \in 1..MAX_POKEMON_ID |-> "done"]
  /\ varW = [n \in {<<"charizard-mega-x", 2>>, <<"charizard-mega-y", 3>>,
                     <<"vulpix-alola", 2>>} |->
               [pc |-> IF nameOf(n) = "vulpix-alola" THEN "skipped" ELSE "done",
                category |-> varietyCategory(nameOf(n))]]
  /\ regionsLeft = {}
  /\ categoryWrites = [id \in {1, 2, 20034, 20035} |-> IF id < 10000 THEN 1 ELSE 2]
  /\ pokemonMapByID = ServingData
  /\ pokemonListByRegion =
       organizePokemonByRegion(ServingData, SortedSeq(DOMAIN ServingData))

InitServing == DatasetServed /\ InitRequests

vars == <<pokemonMapByID, pokemonListByRegion, srvVars, bldVars>>

Init == InitServing

SpecBuild == InitBuild /\ [][NextBuild]_vars

AllIdle == \A p \in Procs : ~tx[p].open

\* Concurrent serving: two handler goroutines, two users.
ConcIDs == {1, 20034}

Register == \E u \in Users, ok \in BOOLEAN : handleRegister(u, ok)
GetQuiz ==
  \E region \in {"mega", "johto"}, retry \in BOOLEAN, u \in Users :
    handleGetQuiz(region, retry, u)
Answer ==
  \E p \in Procs, id \in ConcIDs, name \in AnswerNames, u \in Users :
    handleAnswer(p, id, name, u)
Commit == \E p \in Procs : txCommit(p)
Rollback == \E p \in Procs : txRollback(p)
GetStats == \E u \in Users : handleGetStats(u)

Next == Register \/ GetQuiz \/ Answer \/ Commit \/ Rollback \/ GetStats

Spec == Init /\ [][Next]_vars

\* Users in parallel: the answers of different users overlap, the answers of
\* one user do not.
AnswerOwn ==
  \E p \in Procs, id \in ConcIDs, name \in AnswerNames, u \in Users :
    /\ \A q \in Procs : tx[q].open => tx[q].userID # u
    /\ handleAnswer(p, id, name, u)

NextUsers == Register \/ AnswerOwn \/ Commit \/ Rollback

SpecUsers == Init /\ [][NextUsers]_vars

\* Sequential serving: one user whose requests arrive one after the other.
SeqUser == CHOOSE u \in Users : \A v \in Users : u <= v
AnswerSeq ==
  \E id \in AnswerIDs, name \in AnswerNames, u \in {SeqUser, NoUser} :
    AllIdle /\ handleAnswer("h1", id, name, u)
RegisterSeq == \E ok \in BOOLEAN : handleRegister(SeqUser, ok)
GetStatsSeq == handleGetStats(SeqUser)

NextSeq == RegisterSeq \/ AnswerSeq \/ Commit \/ Rollback \/ GetStatsSeq

SpecSeq == Init /\ [][NextSeq]_vars

\* Quiz serving: the requests of one user, quizzes of every region and mode
\* among them.  No handler reads req or resp, so a quiz asked for right after
\* a quiz reaches no state that the same quiz asked for after another
\* response does not reach; those steps are left out.
QuizAnswerIDs == {1, 3, 20034}
AnswerQuiz ==
  \E id \in QuizAnswerIDs, name \in AnswerNames :
    AllIdle /\ Calls < MaxQuizCalls /\ handleAnswer("h1", id, name, SeqUser)
GetQuizAll ==
  \E region \in QuizRegions, retry \in BOOLEAN, u \in {SeqUser, NoUser} :
    resp.kind # "quiz" /\ handleGetQuiz(region, retry, u)

\* Answering: the answers of one user or of nobody, with submitted names that
\* come close to a display name among them.
NearNames == {"lizardon", "Lizard", ""}
AnswerAny ==
  \E id \in AnswerIDs, name \in AnswerNames \cup NearNames, u \in {SeqUser, NoUser} :
    AllIdle /\ Calls < MaxQuizCalls /\ handleAnswer("h1", id, name, u)

NextAnswer == RegisterSeq \/ AnswerAny \/ Commit \/ Rollback

SpecAnswer == Init /\ [][NextAnswer]_vars

\* Serving a user whose row was written before the per-category counters
\* existed: the row has totals and a missed list, and for RegionalStats the
\* column default or no text.  The missed list may name a record without a
\* category, an id the registry no longer holds, and an id twice.
LegacyIDs == {1, 2, 3, 20034, UnknownID}
LegacyMissed ==
  UNION {[1..n -> LegacyIDs] : n \in 0..MaxLegacyMissed}
LegacyRows ==
  {[NewUserStat(SeqUser) EXCEPT
      !.TotalQuestions = Len(missed) + nCorrect,
      !.TotalCorrect = nCorrect,
      !.WrongAnswers = JSONArray(missed),
      !.RegionalStats = regional] :
     missed \in LegacyMissed, nCorrect \in 0..1,
     regional \in {JSONObject(NoMap), EmptyText}}
InitLegacy ==
  /\ DatasetServed
  /\ users = {SeqUser}
  /\ userStats \in {[u \in {SeqUser} |-> row] : row \in LegacyRows}
  /\ tx = [p \in Procs |-> NoTx]
  /\ req = Request("none", NoUser, 0, "", "", FALSE)
  /\ resp = [status |-> 0, kind |-> "none"]
  /\ hist = [u \in Users |-> NoHist]
AnswerLegacy ==
  \E id \in {1, 3}, name \in AnswerNames :
    AllIdle /\ Calls < MaxLegacyCalls /\ handleAnswer("h1", id, name, SeqUser)

NextLegacy == AnswerLegacy \/ Commit \/ Rollback \/ GetStatsSeq

SpecLegacy == InitLegacy /\ [][NextLegacy]_vars

NextQuiz == RegisterSeq \/ AnswerQuiz \/ Commit \/ Rollback \/ GetQuizAll

SpecQuiz == Init /\ [][NextQuiz]_vars

\* The requests of one user from registration on: quizzes, answers and
\* stats, one after the other.
NextLifecycle == NextQuiz \/ GetStatsSeq

SpecLifecycle == Init /\ [][NextLifecycle]_vars

(***************************************************************************)
(* Properties of the progress tracker and the quiz engine.                 *)
(***************************************************************************)
\* the stored row of the user, the zero row when there is none
StatIn(stats, u) == IF u \in DOMAIN stats THEN stats[u] ELSE NewUserStat(u)
\* the stored missed list of the user
MissedIn(stats, u) == UnmarshalWrongIDs(StatIn(stats, u).WrongAnswers)
\* the stored counters of the category for the user
DetailIn(stats, u, c) == MapGet(UnmarshalRegionalStats(StatIn(stats, u).RegionalStats), c)
CategoriesIn(stats, u) == DOMAIN UnmarshalRegionalStats(StatIn(stats, u).RegionalStats)
NoDuplicates(s) == \A i, j \in DOMAIN s : i # j => s[i] # s[j]
\* the step commits an answer of user u
CommitsFor(u) == hist'[u].n = hist[u].n + 1

\* C1: after k recordAnswer calls of a user have completed successfully, the
\* stored total-answered is k and the stored total-correct is the number of
\* correct ones among them: no update is lost, also when calls overlap.
C1_NoLostUpdate ==
  \A u \in Users :
    /\ StatIn(userStats, u).TotalQuestions = hist[u].n
    /\ StatIn(userStats, u).TotalCorrect = hist[u].nCorrect

\* C2: the stored total-answered and total-correct of a user never decrease
\* from one state to the next.
C2_CountersNeverDecrease ==
  [][\A u \in DOMAIN userStats :
       /\ u \in DOMAIN userStats'
       /\ userStats'[u].TotalQuestions >= userStats[u].TotalQuestions
       /\ userStats'[u].TotalCorrect >= userStats[u].TotalCorrect]_vars

\* C3: a normal-mode quiz for a category whose pool holds N >= 1 records has
\* exactly min(4, N) options, the target's display name exactly once among
\* them and no name twice.
C3_NormalOptionsExact ==
  (/\ req.op = "quiz" /\ ~req.retry
   /\ req.region \in DOMAIN pokemonListByRegion
   /\ Len(pokemonListByRegion[req.region]) >= 1)
  => /\ resp.kind = "quiz"
     /\ Len(resp.options) = Min(4, Len(pokemonListByRegion[req.region]))
     /\ Cardinality({i \in DOMAIN resp.options :
                       resp.options[i] = pokemonMapByID[resp.id].Name}) = 1
     /\ NoDuplicates(resp.options)

\* C5: a review-mode quiz request of a user whose missed set is empty (a user
\* without a progress row included) is answered 404 and with no question.
C5_ReviewEmptyNotFound ==
  (/\ req.op = "quiz" /\ req.retry /\ req.userID # NoUser
   /\ MissedIn(userStats, req.userID) = <<>>)
  => resp.status = 404 /\ resp.kind # "quiz"

C5_Witness ==
  /\ req.op = "quiz" /\ req.retry /\ req.userID = SeqUser
  /\ hist[SeqUser].n > 0 /\ MissedIn(userStats, SeqUser) = <<>>
  /\ resp.status = 404

C7_MissedSetNoDuplicates ==
  [][\A u \in Users :
       /\ NoDuplicates(MissedIn(userStats', u))
       /\ (/\ CommitsFor(u) /\ ~resp'.isCorrect
           /\ req'.id \in SeqToSet(MissedIn(userStats, u)))
          => MissedIn(userStats', u) = MissedIn(userStats, u)]_vars

C7_Witness ==
  /\ hist[SeqUser].n >= 2 /\ hist[SeqUser].wasMissed
  /\ ~hist[SeqUser].last[hist[SeqUser].lastID]
  /\ Len(MissedIn(userStats, SeqUser)) = 1

\* C8: committing a correct answer for id r takes r out of the stored missed
\* list and keeps every other id of it; the list is unchanged when it did not
\* hold r.
C8_CorrectRemovesOnlyThatId ==
  [][\A u \in Users :
       (CommitsFor(u) /\ resp'.isCorrect)
       => LET old == MissedIn(userStats, u)
              new == MissedIn(userStats', u)
              r == req'.id
          IN  /\ r \notin SeqToSet(new)
              /\ SeqToSet(new) = SeqToSet(old) \ {r}
              /\ Len(new) = Len(old) - (IF r \in SeqToSet(old) THEN 1 ELSE 0)
              /\ r \notin SeqToSet(old) => new = old]_vars

C8_Witness ==
  /\ hist[SeqUser].wasMissed
  /\ hist[SeqUser].last[hist[SeqUser].lastID]
  /\ hist[SeqUser].lastID \notin SeqToSet(MissedIn(userStats, SeqUser))
  /\ MissedIn(userStats, SeqUser) # <<>>

\* C9: committing an answer, correct or not, adds 1 to the user's stored
\* total-answered and 1 to the total of the category of the answered record,
\* and leaves the counters of every other category as they were.
C9_OneAnswerOneCount ==
  [][\A u \in Users :
       CommitsFor(u)
       => LET cat == pokemonMapByID[req'.id].Category
              cats == CategoriesIn(userStats, u) \cup CategoriesIn(userStats', u)
                        \cup DOMAIN regionGenerationMap
          IN  /\ StatIn(userStats', u).TotalQuestions
                   = StatIn(userStats, u).TotalQuestions + 1
              /\ cat # "" => DetailIn(userStats', u, cat).Total
                               = DetailIn(userStats, u, cat).Total + 1
              /\ \A c \in cats \ {cat} :
                   DetailIn(userStats', u, c) = DetailIn(userStats, u, c)
              /\ CategoriesIn(userStats', u) \subseteq
                   CategoriesIn(userStats, u) \cup ({cat} \ {""})]_vars

C9_Witness ==
  /\ hist[SeqUser].n >= 2
  /\ StatIn(userStats, SeqUser).TotalQuestions = hist[SeqUser].n
  /\ CategoriesIn(userStats, SeqUser) = {"kanto", "mega"}
  /\ DetailIn(userStats, SeqUser, "kanto").Total = 1
  /\ DetailIn(userStats, SeqUser, "mega").Total = 1

\* C10: an id is in the stored missed list exactly when the user has answered
\* it and the most recent answer for it was incorrect.
C10_MissedIffLastIncorrect ==
  \A u \in Users : \A id \in AnswerIDs :
    id \in SeqToSet(MissedIn(userStats, u))
    <=> (id \in DOMAIN hist[u].last /\ ~hist[u].last[id])

C10_Witness ==
  /\ hist[SeqUser].wasMissed
  /\ MissedIn(userStats, SeqUser) # <<>>
  /\ \E id \in DOMAIN hist[SeqUser].last : hist[SeqUser].last[id]

\* the start-up has built and classified the dataset: the file was absent,
\* fetchAllPokemonData and fetchCategoryData have returned
BuiltAndClassified ==
  /\ rebuild = "absent"
  /\ mainPC \in {"save", "organize", "mainLoadTypeNames", "serving"}

\* a start-up in which the fetch of vulpix-alola and the fetch of generation 2
\* fail leaves the dataset the serving specifications start from
ServingDataBuilt ==
  /\ mainPC = "serving"
  /\ rebuild = "absent"
  /\ pokemonMapByID = ServingData
  /\ pokemonListByRegion =
       organizePokemonByRegion(ServingData, SortedSeq(DOMAIN ServingData))

\* C4: after the dataset is built and classified, no two distinct records of
\* the same category have the same display name.
C4_NoSharedNameInCategory ==
  BuiltAndClassified =>
    \A a, b \in DOMAIN pokemonMapByID :
      (/\ a # b
       /\ pokemonMapByID[a].Category # ""
       /\ pokemonMapByID[a].Category = pokemonMapByID[b].Category)
      => pokemonMapByID[a].Name # pokemonMapByID[b].Name

\* C11: an answer for a record of the dataset reports correct exactly when
\* the submitted name is identical to the record's display name, and returns
\* that record as the truth in both cases.
C11_CorrectIffIdenticalName ==
  (req.op = "answer" /\ req.id \in DOMAIN pokemonMapByID)
  => /\ resp.status = 200 /\ resp.kind = "answer"
     /\ resp.isCorrect <=> (req.name = pokemonMapByID[req.id].Name)
     /\ resp.correctPokemon = pokemonMapByID[req.id]

\* an answer that differs from the display name only by case was judged
\* incorrect, and the record came back
C11_Witness ==
  /\ req.op = "answer" /\ req.id = 1 /\ req.name = "lizardon"
  /\ resp.kind = "answer" /\ ~resp.isCorrect
  /\ resp.correctPokemon.Name = "Lizardon"

\* C12: an answer for an id that is not in the dataset is answered 404, and
\* the step that answers it leaves the progress row of every user as it is.
C12_UnknownIdNotFound ==
  [][(req'.op = "answer" /\ req'.id \notin DOMAIN pokemonMapByID)
     => /\ resp'.status = 404 /\ resp'.kind # "answer"
        /\ userStats' = userStats]_vars

\* a user with a progress row has answered for an unknown id
C12_Witness ==
  /\ req.op = "answer" /\ req.id = UnknownID /\ req.userID = SeqUser
  /\ resp.status = 404
  /\ SeqUser \in DOMAIN userStats /\ hist[SeqUser].n > 0

\* C13: committing an answer for a record with an empty category updates
\* total-answered, total-correct and the missed list as for any record, and
\* leaves the stored per-category counters as they are.
C13_NoCategoryTotalsOnly ==
  [][\A u \in Users :
       (CommitsFor(u) /\ pokemonMapByID[req'.id].Category = "")
       => LET old == StatIn(userStats, u)
              new == StatIn(userStats', u)
              r == req'.id
          IN  /\ new.TotalQuestions = old.TotalQuestions + 1
              /\ new.TotalCorrect =
                   old.TotalCorrect + (IF resp'.isCorrect THEN 1 ELSE 0)
              /\ SeqToSet(MissedIn(userStats', u)) =
                   IF resp'.isCorrect
                   THEN SeqToSet(MissedIn(userStats, u)) \ {r}
                   ELSE SeqToSet(MissedIn(userStats, u)) \cup {r}
              /\ NoDuplicates(MissedIn(userStats', u))
              /\ new.RegionalStats = old.RegionalStats]_vars

\* the last answer committed was an incorrect one for record 3, which has no
\* category, after an answer that was counted for a category
C13_Witness ==
  /\ hist[SeqUser].lastID = 3 /\ ~hist[SeqUser].last[3]
  /\ pokemonMapByID[3].Category = ""
  /\ 3 \in SeqToSet(MissedIn(userStats, SeqUser))
  /\ CategoriesIn(userStats, SeqUser) # {}
  /\ StatIn(userStats, SeqUser).TotalQuestions = hist[SeqUser].n

\* the workers, base and variety together, that are in their provider fetches
Fetching ==
  Cardinality({id \in DOMAIN baseW : baseW[id] = "fetch"})
  + Cardinality({n \in DOMAIN varW : varW[n].pc = "fetch"})

\* C14: during the build the number of workers, base workers and variety
\* workers together, that are performing a provider fetch is at every instant
\* at most the capacity of the semaphore (10 in main.go:846).
C14_FetchesWithinSemaphore == Fetching <= SemaphoreSlots

\* as many workers fetch as the semaphore has slots, one of them the worker
\* of a variety, while another worker waits for a slot
C14_Witness ==
  /\ Fetching = SemaphoreSlots
  /\ \E n \in DOMAIN varW : varW[n].pc = "fetch"
  /\ \/ \E n \in DOMAIN varW : varW[n].pc = "sem"
     \/ (mainPC = "fetchAll" /\ nextID <= MAX_POKEMON_ID)

\* main is past fetchAllPokemonData: it classifies, saves, builds the index
\* or serves
PastFetchAll ==
  mainPC \in {"fetchCategoryData", "generations", "save", "organize",
              "mainLoadTypeNames", "serving"}

\* no worker that was started is still running
NoWorkerRunning ==
  /\ \A id \in DOMAIN baseW : baseW[id] \in {"idle", "done", "skipped"}
  /\ \A n \in DOMAIN varW : varW[n].pc \in {"done", "skipped"}

\* C15: the build is a barrier.  Once main has left fetchAllPokemonData, every
\* base worker and every variety worker that was started has finished, and
\* the registry is written by the classification alone.
C15_BuildIsBarrier ==
  /\ [](PastFetchAll => NoWorkerRunning)
  /\ [][(PastFetchAll /\ pokemonMapByID' # pokemonMapByID)
        => mainPC \in {"fetchCategoryData", "generations"}]_vars

\* the classification starts after a build in which the workers of varieties
\* ran, and all of them are done
C15_Witness ==
  /\ mainPC = "fetchCategoryData"
  /\ \A id \in DOMAIN baseW : baseW[id] = "done"
  /\ Cardinality(DOMAIN varW) = 3
  /\ 20034 \in DOMAIN pokemonMapByID

\* the workers between mu.Lock and mu.Unlock: a base worker that writes its
\* record, the worker of a variety that looks for its name or adds its record
InCriticalSection ==
  {BaseWorker(id) : id \in {i \in DOMAIN baseW : baseW[i] = "write"}}
  \cup {VarietyWorker(n) : n \in {m \in DOMAIN varW : varW[m].pc \in {"check", "add"}}}

\* C16: during the build at most one worker is between Lock and Unlock, it is
\* the one that holds the mutex, and every step that writes the registry is
\* taken by the worker that holds the mutex.
C16_RegistryUnderLock ==
  /\ [](/\ Cardinality(InCriticalSection) <= 1
        /\ InCriticalSection \subseteq {mu}
        /\ mu # MuFree => mu \in InCriticalSection)
  /\ [][(mainPC = "fetchAll" /\ pokemonMapByID' # pokemonMapByID)
        => /\ mu # MuFree /\ mu \in InCriticalSection
           /\ mu.kind = "base" => baseW[mu.id] = "write" /\ baseW'[mu.id] = "exit"
           /\ mu.kind = "variety" =>
                varW[mu.variety].pc = "add" /\ varW'[mu.variety].pc = "exit"]_vars

\* the worker of a variety holds the mutex to add its record while a base
\* worker waits for the mutex
C16_Witness ==
  /\ mu.kind = "variety" /\ varW[mu.variety].pc = "add"
  /\ \E id \in DOMAIN baseW : baseW[id] = "lock"

\* C17: a worker whose fetch fails skips its id and nothing else.  The build
\* never ends in an error and can always go on, and once main is past
\* fetchAllPokemonData every id and every variety whose fetches succeeded
\* has its record in the registry.
C17_FailureSkipsOnlyThatId ==
  /\ [](mainPC = "fetchAll" => ENABLED NextBuild)
  /\ [][mainPC = "fetchAll" => mainPC' # "fatal"]_vars
  /\ []((PastFetchAll /\ rebuild # "none")
        => /\ \A id \in DOMAIN baseW :
                baseW[id] = "done"
                => /\ id \in DOMAIN pokemonMapByID
                   /\ pokemonMapByID[id].EnglishName = ProviderPokemonByID(id).name
           /\ \A n \in DOMAIN varW :
                varW[n].pc = "done"
                => \E id \in DOMAIN pokemonMapByID :
                     /\ id = ProviderPokemonByName(nameOf(n)).id + 10000
                     /\ pokemonMapByID[id].EnglishName = nameOf(n))

\* the build is over; the fetches for vulpix and for charizard-mega-x failed,
\* the records of charizard, ho-oh and charizard-mega-y are there
C17_Witness ==
  /\ mainPC = "fetchCategoryData"
  /\ baseW[2] = "skipped" /\ baseW[1] = "done" /\ baseW[3] = "done"
  /\ varW[<<"charizard-mega-x", 2>>].pc = "skipped"
  /\ varW[<<"charizard-mega-y", 3>>].pc = "done"
  /\ DOMAIN pokemonMapByID = {1, 3, 20035}

\* C18: a turn of the second pass of the classifier writes the category of
\* its generation only to records whose category is empty, so a record with
\* a special category keeps it, whatever lists name it and in whatever order
\* the generations are visited.
C18_PassTwoFillsEmptyOnly ==
  /\ [][mainPC = "generations"
        => \A id \in DOMAIN pokemonMapByID :
             /\ pokemonMapByID[id].Category # ""
                => pokemonMapByID'[id].Category = pokemonMapByID[id].Category
             /\ pokemonMapByID'[id].Category # pokemonMapByID[id].Category
                => \E region \in regionsLeft \ regionsLeft' :
                     /\ regionGenerationMap[region] > 0
                     /\ id \in ProviderGeneration(regionGenerationMap[region])
                     /\ pokemonMapByID'[id].Category = region]_vars
  /\ []((mainPC \in {"generations", "save"} /\ rebuild = "absent")
        => \A id \in DOMAIN pokemonMapByID :
             specialCategory(pokemonMapByID[id].EnglishName) # ""
             => pokemonMapByID[id].Category
                  = specialCategory(pokemonMapByID[id].EnglishName))

\* both generations were fetched; record 20034, which both lists name, is
\* still in category mega, and the records without a category got theirs
C18_Witness ==
  /\ mainPC = "save" /\ rebuild = "absent"
  /\ 20034 \in DOMAIN pokemonMapByID /\ pokemonMapByID[20034].Category = "mega"
  /\ 1 \in DOMAIN pokemonMapByID /\ pokemonMapByID[1].Category = "kanto"
  /\ 3 \in DOMAIN pokemonMapByID /\ pokemonMapByID[3].Category = "johto"

\* the variants whose record the build has stored
StoredVariants == {n \in DOMAIN varW : varW[n].pc \in {"exit", "done"}}
\* main.go:995: the id the record of variant n is stored under
StoredID(n) == ProviderPokemonByName(nameOf(n)).id + 10000

SampleIncomplete ==
  /\ cacheFile.exists
  /\ \E e \in cacheFile.data :
       /\ e[1] = 1
       /\ Len(e[2].Types) = 0 \/ IsZero(e[2].Height) \/ IsZero(e[2].Weight)
\* main has left loadOrFetchPokemonData on the path that rebuilds a cache
RebuiltFromProvider ==
  rebuild = "incomplete" /\ mainPC \in {"organize", "mainLoadTypeNames", "serving"}

C21_WriteFailureNotFatal ==
  [][mainPC = "save" => mainPC' = "organize"]_vars


\* C22: once main has found the JWT secret and opened the database, no other
\* failure ends the start-up: the fatal exit is taken from the first step of
\* main only.
C22_OnlySecretOrStoreFatal ==
  [][mainPC' = "fatal" => mainPC \in {"main", "fatal"}]_vars


\* C23: a review-mode quiz request of a user whose missed list is not empty
\* is answered with a question; its target is an id of the missed list, it
\* has between one and four options and the target's display name is among
\* them.  When the target's category has no pool in the index or an empty
\* one, the options are taken from all records: there are as many as
\* min(4, number of records).
C23_ReviewAlwaysServed ==
  (/\ req.op = "quiz" /\ req.retry /\ req.userID # NoUser
   /\ MissedIn(userStats, req.userID) # <<>>)
  => /\ resp.status = 200 /\ resp.kind = "quiz"
     /\ resp.id \in SeqToSet(MissedIn(userStats, req.userID))
     /\ Len(resp.options) \in 1..4
     /\ \E i \in DOMAIN resp.options :
          resp.options[i] = pokemonMapByID[resp.id].Name
     /\ LET category == pokemonMapByID[resp.id].Category
        IN  (\/ category \notin DOMAIN pokemonListByRegion
             \/ pokemonListByRegion[category] = <<>>)
            => Len(resp.options) = Min(4, Cardinality(DOMAIN pokemonMapByID))

\* the user missed record 3, which has no category, and no pool is kept under
\* the empty category; the review question is about record 3 and has four
\* options
C23_Witness ==
  /\ req.op = "quiz" /\ req.retry /\ req.userID = SeqUser
  /\ MissedIn(userStats, SeqUser) # <<>>
  /\ resp.kind = "quiz" /\ resp.id = 3
  /\ pokemonMapByID[3].Category = ""
  /\ "" \notin DOMAIN pokemonListByRegion
  /\ Len(resp.options) = 4


\* the ids of the stored missed list of user u whose record is in the
\* registry and has category c
MissedOfCategory(u, c) ==
  {id \in SeqToSet(MissedIn(userStats, u)) \cap DOMAIN pokemonMapByID :
     pokemonMapByID[id].Category = c}

\* C24: a stats request that finds a row whose per-category map is empty and
\* whose total-answered is positive returns a map that has an entry exactly
\* for the categories of the records of the missed list (a record without a
\* category has none), with the number of missed ids of the category as total
\* and 0 as correct count; a row whose stored map is not empty, or whose
\* total-answered is 0, gets its stored map.
C24_MigrationCountsMissed ==
  (req.op = "stats" /\ req.userID \in DOMAIN userStats)
  => LET stat == userStats[req.userID]
         stored == UnmarshalRegionalStats(stat.RegionalStats)
     IN  IF DOMAIN stored = {} /\ stat.TotalQuestions > 0
         THEN /\ DOMAIN resp.RegionalStats =
                   {c \in {pokemonMapByID[id].Category : id \in DOMAIN pokemonMapByID} :
                      c # "" /\ MissedOfCategory(req.userID, c) # {}}
              /\ \A c \in DOMAIN resp.RegionalStats :
                   /\ resp.RegionalStats[c].Total
                        = Cardinality(MissedOfCategory(req.userID, c))
                   /\ resp.RegionalStats[c].Correct = 0
         ELSE resp.RegionalStats = stored

\* the stored map is empty and the missed list names record 1 of kanto,
\* record 20034 of mega and, after an incorrect answer, record 3 without a
\* category: the map returned has kanto and mega, with total 1 each
C24_Witness ==
  /\ req.op = "stats" /\ req.userID = SeqUser
  /\ hist[SeqUser].n = 1
  /\ UnmarshalRegionalStats(userStats[SeqUser].RegionalStats) = NoMap
  /\ SeqToSet(MissedIn(userStats, SeqUser)) = {1, 20034, 3}
  /\ DOMAIN resp.RegionalStats = {"kanto", "mega"}
  /\ resp.RegionalStats["kanto"] = [Total |-> 1, Correct |-> 0]


\* the step serves a stats request
StatsStep == req'.op = "stats" /\ UNCHANGED <<tx, hist>>

RowAppears(u) == u \notin DOMAIN userStats /\ u \in DOMAIN userStats'
\* the step serves a quiz request
QuizStep == req'.op = "quiz" /\ UNCHANGED <<tx, hist>>
\* the step serves a registration
RegisterStep == req'.op = "register" /\ UNCHANGED <<tx, hist>>

\* C26, as stated: the row of a user is inserted by the user's first graded
\* answer or first stats read and by no other operation; a stats read of a
\* user without a row inserts it.
C26_CreatedByAnswerOrStatsOnly ==
  /\ [][\A u \in Users :
          RowAppears(u)
          => \/ CommitsFor(u)
             \/ StatsStep /\ req'.userID = u]_vars
  /\ [][(StatsStep /\ req'.userID \notin DOMAIN userStats)
        => req'.userID \in DOMAIN userStats']_vars

\* C26, as the code has it: the row of a user is inserted by the
\* registration, and when that insert failed by the user's first review-mode
\* quiz request or first graded answer; a stats read and a normal-mode quiz
\* request insert no row.
C26_CreatedByRegisterReviewOrAnswer ==
  /\ [][\A u \in Users :
          RowAppears(u)
          => \/ RegisterStep /\ req'.userID = u
             \/ QuizStep /\ req'.retry /\ req'.userID = u
             \/ CommitsFor(u)]_vars
  /\ [][(StatsStep \/ (QuizStep /\ ~req'.retry))
        => DOMAIN userStats' = DOMAIN userStats]_vars

\* the registration left the user without a row, the user has no committed
\* answer, and the review-mode quiz request has inserted the row FirstOrCreate
\* makes, whose missed list is the empty text
C26_Witness ==
  /\ req.op = "quiz" /\ req.retry /\ req.userID = SeqUser
  /\ hist[SeqUser].n = 0
  /\ SeqUser \in DOMAIN userStats
  /\ userStats[SeqUser] = NewUserStat(SeqUser)


\* C27: a quiz request, in normal and in review mode, changes no state: the
\* registry, the category index with the order of every pool, and the stored
\* rows of all users are after the request what they were before it.
C27_QuizChangesNoState ==
  [][QuizStep => UNCHANGED <<pokemonMapByID, pokemonListByRegion, userStats>>]_vars


\* C28: while the answers of one user do not overlap, an answer of user u
\* that is committed leaves the row of every other user as it was, present or
\* absent, and makes of the row of u what the update makes of that row alone,
\* whatever transactions of other users were open or committed in between.
C28_UsersIndependent ==
  [][\A u \in Users :
       CommitsFor(u)
       => /\ \A v \in Users \ {u} :
               /\ (v \in DOMAIN userStats') = (v \in DOMAIN userStats)
               /\ StatIn(userStats', v) = StatIn(userStats, v)
          /\ userStats'[u] = updatedStat(StatIn(userStats, u), hist'[u].lastID,
                                         hist'[u].last[hist'[u].lastID])]_vars

\* an answer of each user is open at the same time, and the row of the user
\* whose earlier answer was committed counts that answer
C28_Witness ==
  /\ \E p, q \in Procs :
       /\ tx[p].open /\ tx[q].open
       /\ tx[p].userID # tx[q].userID
  /\ \E u \in Users :
       /\ hist[u].n = 1
       /\ u \in DOMAIN userStats /\ userStats[u].TotalQuestions = 1


\* the step ends a transaction of updateUserStats with an error
FailedWrite == (\E p \in Procs : tx[p].open /\ ~tx'[p].open) /\ hist' = hist

\* C29: when the transaction of an answer fails, the response still is 200
\* with the verdict for the submitted name and the correct record, and the
\* table of rows is what it was when the answer arrived: no row is inserted
\* and no row is changed.
C29_FailedWriteStillAnswers ==
  [][FailedWrite
     => /\ userStats' = userStats
        /\ req'.op = "answer"
        /\ resp'.status = 200 /\ resp'.kind = "answer"
        /\ resp'.correctPokemon = pokemonMapByID[req'.id]
        /\ resp'.isCorrect = (req'.name = pokemonMapByID[req'.id].Name)]_vars

\* the incorrect answer of a user without a row got its response, the
\* transaction is over, no answer was committed and the user still has no row
C29_Witness ==
  /\ AllIdle
  /\ req.op = "answer" /\ req.userID = SeqUser /\ req.id = 1 /\ req.name = "Houou"
  /\ resp.kind = "answer" /\ ~resp.isCorrect
  /\ hist[SeqUser].n = 0
  /\ SeqUser \notin DOMAIN userStats


\* C30: on every start-up path that builds the dataset from the provider,
\* with no cache file as with an incomplete one, the step that follows the
\* wait for the workers is the classifier, and the file is written and the
\* category index built only after the classifier's second pass.
C30_ClassifierAfterEveryBuild ==
  /\ [][(mainPC = "fetchAll" /\ mainPC' # "fetchAll")
        => mainPC' = "fetchCategoryData"]_vars
  /\ [][(mainPC' = "save" /\ mainPC # "save") => mainPC = "generations"]_vars


\* C31: the cached dataset is taken as it is, and the build from the provider
\* left out, only when the file holds record 1 and that record has types, a
\* height and a weight; a file without record 1 is rebuilt.
C31_ServedOnlyWithCompleteSample ==
  [][(mainPC = "loadOrFetch" /\ mainPC' = "organize")
     => \E e \in cacheFile.data :
          /\ e[1] = 1
          /\ Len(e[2].Types) > 0 /\ ~IsZero(e[2].Height) /\ ~IsZero(e[2].Weight)]_vars


\* the number of places pool c of the index holds record id at
PlacesIn(c, id) ==
  IF c \in DOMAIN pokemonListByRegion
  THEN Cardinality({i \in DOMAIN pokemonListByRegion[c] :
                      pokemonListByRegion[c][i] = id})
  ELSE 0
\* organizePokemonByRegion has returned
IndexBuilt == mainPC \in {"mainLoadTypeNames", "serving"}

\* C32: once the index is built, pool 'all' holds every record of the
\* registry exactly once; a record with category c is held exactly once by
\* pool c and by no other category pool; a record without a category is held
\* by no category pool; and no pool holds an id the registry does not have.
C32_IndexMatchesRegistry ==
  IndexBuilt
  => /\ \A id \in DOMAIN pokemonMapByID :
          /\ PlacesIn("all", id) = 1
          /\ \A c \in (DOMAIN pokemonListByRegion \cup {pokemonMapByID[id].Category})
                        \ {"all", ""} :
               PlacesIn(c, id) = (IF pokemonMapByID[id].Category = c THEN 1 ELSE 0)
          /\ PlacesIn("", id) = 0
     /\ \A c \in DOMAIN pokemonListByRegion :
          \A i \in DOMAIN pokemonListByRegion[c] :
            pokemonListByRegion[c][i] \in DOMAIN pokemonMapByID

\* the index was built from a registry that was built and classified; record
\* 1 is in pool kanto, and record 3, which got no category, is in pool 'all'
\* and in no other
C32_Witness ==
  /\ IndexBuilt /\ rebuild = "absent"
  /\ {1, 3, 20034} \subseteq DOMAIN pokemonMapByID
  /\ pokemonMapByID[3].Category = ""
  /\ PlacesIn("kanto", 1) = 1 /\ PlacesIn("mega", 20034) = 1
  /\ PlacesIn("all", 3) = 1
  /\ \A c \in DOMAIN pokemonListByRegion \ {"all"} : PlacesIn(c, 3) = 0


(***************************************************************************)
(* The build against a provider that lists one variety twice.              *)
(***************************************************************************)
\* GET /pokemon-species/{id} of a provider whose variety list of species 2
\* names vulpix-alola in two entries
ProviderSpeciesRepeating(id) ==
  IF id = 2
  THEN [ProviderSpecies(2) EXCEPT
          !.varieties = Append(@, [is_default |-> FALSE, name |-> "vulpix-alola"])]
  ELSE ProviderSpecies(id)

\* main.go:773-777, 803-810: the process as main finds it with no cache file
InitRepeating == InitBuild /\ cacheFile = NoFile

NextRepeating ==
  \/ \E jwtKeySet, dbOpens \in BOOLEAN : main(jwtKeySet, dbOpens)
  \/ \E readable \in BOOLEAN : loadOrFetchPokemonData(readable)
  \/ \E ok \in BOOLEAN : loadTypeNames(ok)
  \/ dispatch
  \/ wgWait
  \/ \E id \in 1..MAX_POKEMON_ID, ok \in BOOLEAN : baseFetch(id, ok)
  \/ \E id \in 1..MAX_POKEMON_ID : baseLock(id)
  \/ \E id \in 1..MAX_POKEMON_ID : baseWrite(id, ProviderSpeciesRepeating(id))
  \/ \E id \in 1..MAX_POKEMON_ID : baseExit(id)
  \/ \E w \in DOMAIN varW : varietyAcquire(w)
  \/ \E w \in DOMAIN varW : varietyLock(w)
  \/ \E w \in DOMAIN varW : varietyCheck(w)
  \/ \E w \in DOMAIN varW, ok \in BOOLEAN : varietyFetch(w, ok)
  \/ \E w \in DOMAIN varW : varietyAdd(w)
  \/ \E w \in DOMAIN varW : varietyExit(w)
  \/ fetchCategoryData
  \/ \E region \in DOMAIN regionGenerationMap, ok \in BOOLEAN :
       fetchGeneration(region, ok)
  \/ \E written \in BOOLEAN : save(written)
  \/ \E order \in Orders(DOMAIN pokemonMapByID) : organize(order)

SpecRepeating == InitRepeating /\ [][NextRepeating]_vars

\* main.go:957-986 succeeded for worker w: it is past its two fetches
Fetched(w) == varW[w].pc \in {"lock2", "add", "exit", "done"}

\* two workers of one source name
SameVariety(w1, w2) == w1 # w2 /\ nameOf(w1) = nameOf(w2)

\* C33: a variety whose source name is already in the registry is not fetched
\* again; with several workers running at once each source name is fetched
\* at most once, and no two records of the registry have one source name.
C33_VariantFetchedOnce ==
  /\ \A w1, w2 \in DOMAIN varW : SameVariety(w1, w2) => ~(Fetched(w1) /\ Fetched(w2))
  /\ \A a, b \in DOMAIN pokemonMapByID :
       a # b => pokemonMapByID[a].EnglishName # pokemonMapByID[b].EnglishName

\* the half of C33 the code keeps: no two records with one source name
C33_NoTwoRecordsOfOneName ==
  \A a, b \in DOMAIN pokemonMapByID :
    a # b => pokemonMapByID[a].EnglishName # pokemonMapByID[b].EnglishName

\* the check of main.go:948-954 at work: a worker skipped without a fetch
\* because the other worker of its name had stored the record
C33_SkippedAsPresent ==
  \E w1, w2 \in DOMAIN varW :
    /\ SameVariety(w1, w2)
    /\ varW[w1].pc = "done" /\ varW[w2].pc = "skipped"
    /\ ProviderPokemonByName(nameOf(w1)).id + 10000 \in DOMAIN pokemonMapByID


(***************************************************************************)
(* The build under fair scheduling.                                        *)
(***************************************************************************)
\* every goroutine fetchAndAddVariety the provider's lists can start
VarietyWorkers == UNION {spawned(ProviderSpecies(id)) : id \in 1..MAX_POKEMON_ID}

\* main.go:856-931: the steps of the base worker of id; its fetches return
baseWorkerStep(id) ==
  \/ \E ok \in BOOLEAN : baseFetch(id, ok)
  \/ baseLock(id)
  \/ baseWrite(id, ProviderSpecies(id))
  \/ baseExit(id)

\* main.go:939-998: the steps of the worker w of a variety; its fetches return
varietyWorkerStep(w) ==
  \/ varietyAcquire(w)
  \/ varietyLock(w)
  \/ varietyCheck(w)
  \/ \E ok \in BOOLEAN : varietyFetch(w, ok)
  \/ varietyAdd(w)
  \/ varietyExit(w)

\* main.go:853-856 and 933: the steps of the goroutine that runs
\* fetchAllPokemonData
dispatcherStep == dispatch \/ wgWait

\* the Go scheduler runs every goroutine that can run, and a fetch returns
FairBuild ==
  /\ WF_vars(dispatcherStep)
  /\ \A id \in 1..MAX_POKEMON_ID : WF_vars(baseWorkerStep(id))
  /\ \A w \in VarietyWorkers : WF_vars(varietyWorkerStep(w))

SpecBuildFair == InitBuild /\ [][NextBuild]_vars /\ FairBuild

\* C34: with fetches that return and fair scheduling the build terminates.
\* A build that has started passes the join barrier; while it runs, some
\* goroutine of it can take a step; and once the barrier is passed every
\* worker has given its slot back, the wait group is at zero and the mutex
\* is free.
C34_BuildTerminates ==
  /\ (mainPC = "fetchAll") ~> PastFetchAll
  /\ [](mainPC = "fetchAll" =>
          ENABLED (dispatcherStep
                   \/ (\E id \in 1..MAX_POKEMON_ID : baseWorkerStep(id))
                   \/ (\E w \in DOMAIN varW : varietyWorkerStep(w))))
  /\ [](PastFetchAll => semaphore = 0 /\ wg = 0 /\ mu = MuFree)

\* the barrier is passed after a build in which every base worker and three
\* workers of varieties ran on two slots
C34_Witness ==
  /\ PastFetchAll
  /\ rebuild # "none"
  /\ \A id \in DOMAIN baseW : baseW[id] \in {"done", "skipped"}
  /\ Cardinality(DOMAIN varW) = 3
  /\ Cardinality(DOMAIN varW) + MAX_POKEMON_ID > SemaphoreSlots
  /\ semaphore = 0 /\ wg = 0


\* the total of category c in the map a stats request of user u is answered
\* with when the stored rows are stats, 0 for a category the map lacks
ReportedTotal(stats, u, c) ==
  IF u \in DOMAIN stats /\ c \in DOMAIN reportedRegionalStats(stats[u])
  THEN reportedRegionalStats(stats[u])[c].Total
  ELSE 0

\* C35: the category totals of the stats responses of a user never decrease
\* from one stats request to the next, whatever answers are recorded in
\* between, a user whose first response was migrated included.  A stats
\* response is the map of the stored row, so this says that no step lowers
\* the total a stats request would report for any category.
C35_ReportedTotalsNeverDecrease ==
  /\ []((req.op = "stats" /\ req.userID \in DOMAIN userStats)
          => resp.RegionalStats = reportedRegionalStats(userStats[req.userID]))
  /\ [][\A u \in DOMAIN userStats, c \in DOMAIN regionGenerationMap :
          ReportedTotal(userStats', u, c) >= ReportedTotal(userStats, u, c)]_vars


RECURSIVE SumOf(_, _)
\* the sum of f over keys
SumOf(f, keys) ==
  IF keys = {} THEN 0
  ELSE LET k == CHOOSE x \in keys : TRUE
       IN  f[k] + SumOf(f, keys \ {k})
\* the sums of the per-category counters of a stored row
SumOfTotals(stat) ==
  LET m == UnmarshalRegionalStats(stat.RegionalStats)
  IN  SumOf([c \in DOMAIN m |-> m[c].Total], DOMAIN m)
SumOfCorrects(stat) ==
  LET m == UnmarshalRegionalStats(stat.RegionalStats)
  IN  SumOf([c \in DOMAIN m |-> m[c].Correct], DOMAIN m)

\* C36: after answers recorded one after the other from a fresh row, the
\* correct count is at most the number of answers, the correct count of every
\* category is at most the total of the category, the category totals add up
\* to at most the number of answers and the category correct counts add up to
\* at most the correct count.
C36_CountersConsistent ==
  \A u \in DOMAIN userStats :
    LET stat == userStats[u]
        m == UnmarshalRegionalStats(stat.RegionalStats)
    IN  /\ stat.TotalCorrect <= stat.TotalQuestions
        /\ \A c \in DOMAIN m : m[c].Correct <= m[c].Total
        /\ SumOfTotals(stat) <= stat.TotalQuestions
        /\ SumOfCorrects(stat) <= stat.TotalCorrect

\* three answers are recorded: a correct one and an incorrect one for records
\* of two categories, and a correct one for a record without a category
C36_Witness ==
  /\ SeqUser \in DOMAIN userStats
  /\ hist[SeqUser].n = 3
  /\ userStats[SeqUser].TotalQuestions = 3
  /\ userStats[SeqUser].TotalCorrect = 2
  /\ Cardinality(DOMAIN UnmarshalRegionalStats(userStats[SeqUser].RegionalStats)) = 2
  /\ SumOfTotals(userStats[SeqUser]) = 2
  /\ SumOfCorrects(userStats[SeqUser]) = 1

=============================================================================
